---- MODULE Spec2Model ----
(***************************************************************************)
(* Model of app.py: the persona-routed completion dispatcher               *)
(* (get_llm_response) and the Streamlit page (main) that calls it.         *)
(*                                                                         *)
(* Text is modelled as a sequence of tokens (a token is a TLA+ string):    *)
(* concatenation is \o, str.strip() removes leading and trailing           *)
(* whitespace tokens.  The Japanese literals of the source are written     *)
(* here as ASCII renderings, one per literal, with the source line named   *)
(* next to each.                                                           *)
(***************************************************************************)
EXTENDS Integers, Sequences, FiniteSets, TLC

VARIABLES
    api_key,        \* os.environ["OPENAI_API_KEY"] (Unset when not in the environment)
    expert_type,    \* value of the sidebar radio widget
    user_input,     \* value of the text area widget
    session_state,  \* st.session_state: a function from the attributes set so far
    calls,          \* the get_llm_response calls made by the most recent run
    lastCall,       \* the most recent get_llm_response call made by main, or <<>>
    warned          \* whether the most recent run showed st.warning

vars == <<api_key, expert_type, user_input, session_state, calls, lastCall, warned>>

\* ------------------------------------------------------------------ bounds

\* Longest user text, in tokens.
MaxLen == 2

\* ------------------------------------------------------------------- text

Whitespace == {" "}

\* The tokens a user can type.
InputTokens == {"a", " "}

RECURSIVE TextsUpTo(_)
TextsUpTo(n) ==
    IF n = 0 THEN {<<>>}
    ELSE LET shorter == TextsUpTo(n - 1)
         IN  shorter \cup {Append(t, c) : t \in {s \in shorter : Len(s) = n - 1}, c \in InputTokens}

Texts == TextsUpTo(MaxLen)

RECURSIVE lstrip(_)
lstrip(s) == IF s # <<>> /\ Head(s) \in Whitespace THEN lstrip(Tail(s)) ELSE s

RECURSIVE rstrip(_)
rstrip(s) ==
    IF s # <<>> /\ s[Len(s)] \in Whitespace THEN rstrip(SubSeq(s, 1, Len(s) - 1)) ELSE s

\* str.strip()
strip(s) == rstrip(lstrip(s))

\* ------------------------------------------------------- persona registry

\* The four persona identifiers (lines 23-26, 90-93, 100-103), in ASCII:
\*   HealthAdvisor      kenkou adobaizaa
\*   RecipeAdvisor      ryouri reshipi adobaizaa
\*   ProgrammingMentor  puroguramingu mentaa
\*   TravelPlanner      ryokou purannaa

\* system_messages: persona id -> system prompt (one token per prompt).
system_messages ==
    [e \in {"HealthAdvisor", "RecipeAdvisor", "ProgrammingMentor", "TravelPlanner"} |->
        CASE e = "HealthAdvisor"     -> <<"You are a health expert. Give safe, evidence-based advice.">>
          [] e = "RecipeAdvisor"     -> <<"You are a cooking expert. Propose tasty, balanced recipes.">>
          [] e = "ProgrammingMentor" -> <<"You are a programming expert. Explain code step by step.">>
          [] e = "TravelPlanner"     -> <<"You are a travel expert. Give detailed destination plans.">>]

\* A radio with a fifth option that has no system prompt.
options_Extra ==
    <<"HealthAdvisor", "RecipeAdvisor", "ProgrammingMentor", "TravelPlanner", "LegalAdvisor">>

\* The options of the sidebar radio, in presentation order.
options == <<"HealthAdvisor", "RecipeAdvisor", "ProgrammingMentor", "TravelPlanner">>

\* expert_descriptions: persona id -> short description.
expert_descriptions ==
    [e \in {"HealthAdvisor", "RecipeAdvisor", "ProgrammingMentor", "TravelPlanner"} |->
        CASE e = "HealthAdvisor"     -> <<"Advice on health care, exercise and nutrition">>
          [] e = "RecipeAdvisor"     -> <<"Recipes, cooking tips and use of ingredients">>
          [] e = "ProgrammingMentor" -> <<"Coding, debugging and technical problem solving">>
          [] e = "TravelPlanner"     -> <<"Travel plans, sightseeing spots and gourmet information">>]

Range(f) == {f[i] : i \in DOMAIN f}

\* Identifiers a direct caller of get_llm_response may pass: the radio's
\* options and two that are in no table.
ExpertArgs == Range(options) \cup {"LegalAdvisor", ""}

\* --------------------------------------------------------- the environment

\* os.getenv returns None for a variable that is not set.
Unset == "<None>"

\* Values OPENAI_API_KEY can have: not set, set to the empty string, set to a key.
ApiKeys == {Unset, "", "sk-test"}

\* load_dotenv() with override=False: a value from the .env file is used only
\* when the variable is not in the environment already.
load_dotenv(env, file) == IF env = Unset THEN file ELSE env

\* ---------------------------------------------------------- the dispatcher

\* The string returned when no key is configured (line 33):
\* "Error" ": OpenAI API key is not set. Set OPENAI_API_KEY in the .env file."
MissingCredentialMsg ==
    <<"Error", ": OpenAI API key is not set. Set OPENAI_API_KEY in the .env file.">>

\* The literal part of the f-string of line 53: "Error" " occurred: ".
ErrorPrefix == <<"Error", " occurred: ">>

\* What a run that ended in an uncaught exception returns: nothing.
NoValue == <<"<uncaught>">>

\* Texts the provider can answer with: empty, padded with whitespace, and a
\* text equal to the dispatcher's own missing-key message.
ProviderTexts == {<<>>, <<" ", "answer", " ">>, MissingCredentialMsg}

\* str(e) of the exceptions the provider client can raise.
FaultDescriptions == {<<>>, <<"Connection error.">>, Tail(MissingCredentialMsg)}

\* What the external provider does during one call: the client constructor
\* raises, invoke raises, or invoke returns a response with this content.
ProviderOutcomes ==
    [kind : {"ctor_fault", "invoke_fault"}, text : FaultDescriptions]
        \cup [kind : {"content"}, text : ProviderTexts]

\* A check that lets the empty string through.
CredentialMissing_NoneOnly(key) == key = Unset

\* The check inverted.
CredentialMissing_Inverted(key) == ~(key = Unset \/ key = "")

\* "not api_key": None and the empty string are falsy.
CredentialMissing(key) == key = Unset \/ key = ""

\* str(KeyError(k)) is repr(k): the key in quotes.
KeyErrorStr(k) == <<"'", k, "'">>

\* Messages with the user text trimmed.
BuildMessages_Trimmed(input_text, expert) ==
    << [role |-> "system", content |-> system_messages[expert]],
       [role |-> "user", content |-> strip(input_text)] >>

\* The list [SystemMessage(...), HumanMessage(...)].
BuildMessages(input_text, expert) ==
    << [role |-> "system", content |-> system_messages[expert]],
       [role |-> "user", content |-> input_text] >>

\* An invoke that tries again after a fault.
llm_invoke_Retry(messages, provider) ==
    IF provider.kind = "invoke_fault"
    THEN [tag |-> "raise", exc |-> [type |-> "ProviderFault", str |-> provider.text],
          sent |-> <<messages, messages>>]
    ELSE [tag |-> "ok", content |-> provider.text, sent |-> <<messages>>]

\* llm.invoke(messages): one request to the provider, which answers or raises.
llm_invoke(messages, provider) ==
    IF provider.kind = "invoke_fault"
    THEN [tag |-> "raise", exc |-> [type |-> "ProviderFault", str |-> provider.text],
          sent |-> <<messages>>]
    ELSE [tag |-> "ok", content |-> provider.text, sent |-> <<messages>>]

\* A return that trims the answer.
ResponseContent_Stripped(content) == strip(content)

\* "return response.content".
ResponseContent(content) == content

\* A handler whose text starts like the missing-credential message.
ExceptHandler_SharedPrefix(exc) == <<"Error">> \o exc.str

\* A handler that drops the exception's text.
ExceptHandler_NoDetail(exc) == ErrorPrefix

\* The value of the except clause: the f-string of line 53.
ExceptHandler(exc) == ErrorPrefix \o exc.str

\* A clause that catches the provider's exceptions only.
Catches_ProviderOnly(exc) == exc.type = "ProviderFault"

\* "except Exception": KeyError and the provider's exceptions are Exceptions.
Catches(exc) == exc.type \in {"KeyError", "ProviderFault"}

\* The body of the try block (lines 30-50): its outcome and the message
\* lists it sent to the provider.
TryBody(input_text, expert, key, provider) ==
    IF CredentialMissing(key)
    THEN [tag |-> "return", value |-> MissingCredentialMsg, sent |-> <<>>]
    ELSE IF provider.kind = "ctor_fault"
    THEN [tag |-> "raise", exc |-> [type |-> "ProviderFault", str |-> provider.text],
          sent |-> <<>>]
    ELSE IF expert \notin DOMAIN system_messages
    THEN [tag |-> "raise", exc |-> [type |-> "KeyError", str |-> KeyErrorStr(expert)],
          sent |-> <<>>]
    ELSE LET r == llm_invoke(BuildMessages(input_text, expert), provider)
         IN  IF r.tag = "raise"
             THEN [tag |-> "raise", exc |-> r.exc, sent |-> r.sent]
             ELSE [tag |-> "return", value |-> ResponseContent(r.content), sent |-> r.sent]

\* get_llm_response(input_text, expert_type) with the environment's key and
\* the provider's behaviour: the value returned, whether an exception left
\* the function, and the message lists sent to the provider.
get_llm_response(input_text, expert, key, provider) ==
    LET b == TryBody(input_text, expert, key, provider)
    IN  IF b.tag = "return"
        THEN [ret |-> b.value, raised |-> FALSE, sent |-> b.sent]
        ELSE IF Catches(b.exc)
        THEN [ret |-> ExceptHandler(b.exc), raised |-> FALSE, sent |-> b.sent]
        ELSE [ret |-> NoValue, raised |-> TRUE, sent |-> b.sent]

\* One call, as recorded in calls and lastCall.
CallRecord(input_text, expert, key, provider) ==
    LET r == get_llm_response(input_text, expert, key, provider)
    IN  [input_text |-> input_text, expert_type |-> expert, api_key |-> key,
         provider |-> provider, ret |-> r.ret, raised |-> r.raised, sent |-> r.sent]

\* ---------------------------------------------------------------- the page

SessionKeys == {"last_response", "last_question", "last_expert"}

\* A store that sets the answer and leaves the question and the persona.
StoreResult_ResponseOnly(ss, response, question, expert) ==
    [k \in DOMAIN ss \cup {"last_response"} |->
        IF k = "last_response" THEN response ELSE ss[k]]

\* The three assignments to st.session_state (lines 127-129).
StoreResult(ss, response, question, expert) ==
    [k \in DOMAIN ss \cup SessionKeys |->
        IF k = "last_response" THEN response
        ELSE IF k = "last_question" THEN question
        ELSE IF k = "last_expert" THEN expert
        ELSE ss[k]]

\* A test that takes whitespace for text.
has_text_NoStrip(text) == text # <<>>

\* "if user_input.strip():" a non-empty string is truthy.
has_text(text) == strip(text) # <<>>

\* State after the first run of the script: the radio shows its first option,
\* the text area is empty, nothing is stored, and load_dotenv has run.
Init ==
    /\ api_key \in ApiKeys
    /\ expert_type = options[1]
    /\ user_input = <<>>
    /\ session_state = [k \in {} |-> <<>>]
    /\ calls = <<>>
    /\ lastCall = <<>>
    /\ warned = FALSE

\* What .env can hold during a run; load_dotenv reads it only while the
\* variable is not in the environment, so one value stands for all otherwise.
DotenvValues == IF api_key = Unset THEN ApiKeys ELSE {Unset}

\* One run of main() with the widgets at (expert, text) and the submit button
\* pressed or not; file is what .env holds for OPENAI_API_KEY during the run.
RunScript(expert, text, pressed, file) ==
    LET key == load_dotenv(api_key, file)
    IN  /\ file \in DotenvValues
        /\ api_key' = key
        /\ expert_type' = expert
        /\ user_input' = text
        /\ IF expert \notin DOMAIN expert_descriptions
           THEN \* line 106 raises KeyError and the run ends there
                /\ calls' = <<>>
                /\ warned' = FALSE
                /\ UNCHANGED <<session_state, lastCall>>
           ELSE IF ~pressed
           THEN /\ calls' = <<>>
                /\ warned' = FALSE
                /\ UNCHANGED <<session_state, lastCall>>
           ELSE IF has_text(text)
           THEN \E provider \in ProviderOutcomes :
                    LET c == CallRecord(text, expert, key, provider)
                    IN  /\ calls' = <<c>>
                        /\ lastCall' = <<c>>
                        /\ warned' = FALSE
                        /\ session_state' =
                               IF c.raised THEN session_state
                               ELSE StoreResult(session_state, c.ret, text, expert)
           ELSE /\ calls' = <<>>
                /\ warned' = TRUE
                /\ UNCHANGED <<session_state, lastCall>>

\* The user picks another persona in the sidebar radio.
SelectExpert(e, file) ==
    /\ e # expert_type
    /\ RunScript(e, user_input, FALSE, file)

\* The user changes the text area.
EditText(t, file) ==
    /\ t # user_input
    /\ RunScript(expert_type, t, FALSE, file)

\* The user clicks the submit button.
ClickSubmit(file) ==
    /\ file \in ApiKeys
    /\ RunScript(expert_type, user_input, TRUE, file)

\* The user clicks the feedback button, which is drawn only with an answer.
ClickFeedback(file) ==
    /\ "last_response" \in DOMAIN session_state
    /\ RunScript(expert_type, user_input, FALSE, file)

Next ==
    \/ \E e \in Range(options), file \in ApiKeys : SelectExpert(e, file)
    \/ \E t \in Texts, file \in ApiKeys : EditText(t, file)
    \/ \E file \in ApiKeys : ClickSubmit(file)
    \/ \E file \in ApiKeys : ClickFeedback(file)

\* The page, driven by its user.
Spec == Init /\ [][Next]_vars

\* get_llm_response called directly, with any arguments.
Dispatch(input_text, expert, provider) ==
    /\ calls' = <<CallRecord(input_text, expert, api_key, provider)>>
    /\ UNCHANGED <<api_key, expert_type, user_input, session_state, lastCall, warned>>

NextDispatch ==
    \E input_text \in Texts, expert \in ExpertArgs, provider \in ProviderOutcomes :
        Dispatch(input_text, expert, provider)

\* The dispatcher alone, for every key the environment can hold.
SpecDispatch == Init /\ [][NextDispatch]_vars

\* ------------------------------------------------------------- properties

\* The credential is configured: the variable is set, and not to "".
Configured(key) == key # Unset /\ key # ""

ValidExpert(e) == e \in DOMAIN system_messages

Faulted(provider) == provider.kind \in {"ctor_fault", "invoke_fault"}

\* sub occurs in s as a contiguous run of tokens.
Contains(s, sub) ==
    \E i \in 0..(Len(s) - Len(sub)) : SubSeq(s, i + 1, i + Len(sub)) = sub

StartsWith(s, prefix) ==
    Len(s) >= Len(prefix) /\ SubSeq(s, 1, Len(prefix)) = prefix

\* C1: with OPENAI_API_KEY unset or empty, whatever the persona id and the
\* text, the call returns the missing-credential message, raises nothing and
\* sends nothing to the provider.
C1_MissingCredential ==
    \A i \in DOMAIN calls :
        ~Configured(calls[i].api_key) =>
            /\ calls[i].ret = MissingCredentialMsg
            /\ calls[i].sent = <<>>
            /\ ~calls[i].raised

\* A call with the key set to "", an id of no table and a provider that
\* would have answered.
C1_Witness ==
    \E i \in DOMAIN calls :
        /\ calls[i].api_key = ""
        /\ ~ValidExpert(calls[i].expert_type)
        /\ calls[i].provider.kind = "content"
        /\ calls[i].ret = MissingCredentialMsg

\* C2: with a valid persona and a configured key, a fault of the client's
\* construction or of invoke gives a returned failure text that contains the
\* fault's description, and no exception leaves the function.
C2_ProviderFault ==
    \A i \in DOMAIN calls :
        ( /\ ValidExpert(calls[i].expert_type)
          /\ Configured(calls[i].api_key)
          /\ Faulted(calls[i].provider) ) =>
            /\ ~calls[i].raised
            /\ StartsWith(calls[i].ret, ErrorPrefix)
            /\ Contains(calls[i].ret, calls[i].provider.text)

\* A call whose invoke raised "Connection error.".
C2_Witness ==
    \E i \in DOMAIN calls :
        /\ ValidExpert(calls[i].expert_type)
        /\ Configured(calls[i].api_key)
        /\ calls[i].provider = [kind |-> "invoke_fault", text |-> <<"Connection error.">>]
        /\ Len(calls[i].sent) = 1
        /\ ~calls[i].raised

\* The failure that names the unknown persona: the except clause's text for
\* the KeyError of the prompt lookup.
UnknownPersonaFailure(e) == ErrorPrefix \o <<"'", e, "'">>

\* C3 as stated: for an id outside the four, with or without a credential, the
\* call returns the unknown-persona failure, which is neither the
\* missing-credential message nor a provider fault's failure, and raises nothing.
C3_Original ==
    \A i \in DOMAIN calls :
        ~ValidExpert(calls[i].expert_type) =>
            /\ ~calls[i].raised
            /\ calls[i].ret # MissingCredentialMsg
            /\ calls[i].ret = UnknownPersonaFailure(calls[i].expert_type)

\* C3 amended: for an id outside the four the call raises nothing and sends
\* nothing; it returns the missing-credential message when no key is
\* configured, else the generic failure text carrying the construction
\* fault's description when construction faults, else the one carrying the
\* quoted id.
C3_Amended ==
    \A i \in DOMAIN calls :
        ~ValidExpert(calls[i].expert_type) =>
            /\ ~calls[i].raised
            /\ calls[i].sent = <<>>
            /\ calls[i].ret =
                   IF ~Configured(calls[i].api_key) THEN MissingCredentialMsg
                   ELSE IF calls[i].provider.kind = "ctor_fault"
                   THEN ErrorPrefix \o calls[i].provider.text
                   ELSE UnknownPersonaFailure(calls[i].expert_type)

\* A call with a configured key and the id "LegalAdvisor" that came back with
\* the text naming it.
C3_Witness ==
    \E i \in DOMAIN calls :
        /\ calls[i].expert_type = "LegalAdvisor"
        /\ Configured(calls[i].api_key)
        /\ calls[i].ret = <<"Error", " occurred: ", "'", "LegalAdvisor", "'">>

\* C4: with a valid persona, a text that is not blank and a configured key, an
\* answer T of the provider is returned exactly as T.
C4_PassThrough ==
    \A i \in DOMAIN calls :
        ( /\ ValidExpert(calls[i].expert_type)
          /\ strip(calls[i].input_text) # <<>>
          /\ Configured(calls[i].api_key)
          /\ calls[i].provider.kind = "content" ) =>
            /\ ~calls[i].raised
            /\ calls[i].ret = calls[i].provider.text

\* A call answered with a text that has whitespace at both ends.
C4_Witness ==
    \E i \in DOMAIN calls :
        /\ ValidExpert(calls[i].expert_type)
        /\ strip(calls[i].input_text) # <<>>
        /\ Configured(calls[i].api_key)
        /\ calls[i].provider = [kind |-> "content", text |-> <<" ", "answer", " ">>]
        /\ calls[i].ret = <<" ", "answer", " ">>

\* C5 as stated: every message list sent to the provider is the system entry
\* with the requested persona's prompt followed by the user entry with the
\* user's text trimmed.
C5_Original ==
    \A i \in DOMAIN calls : \A j \in DOMAIN calls[i].sent :
        LET m == calls[i].sent[j]
        IN  /\ Len(m) = 2
            /\ m[1] = [role |-> "system", content |-> system_messages[expert_type]]
            /\ m[2] = [role |-> "user", content |-> strip(user_input)]

\* C5 amended: every message list sent to the provider is the system entry
\* with the requested persona's prompt followed by the user entry with the
\* user's text as typed, whitespace at its ends included.
C5_Amended ==
    \A i \in DOMAIN calls : \A j \in DOMAIN calls[i].sent :
        LET m == calls[i].sent[j]
        IN  /\ Len(m) = 2
            /\ m[1] = [role |-> "system", content |-> system_messages[expert_type]]
            /\ m[2] = [role |-> "user", content |-> user_input]

\* A request was sent for a text that starts or ends with whitespace.
C5_Witness ==
    /\ user_input # strip(user_input)
    /\ \E i \in DOMAIN calls : Len(calls[i].sent) = 1

\* C6: a run of the script makes at most one call of get_llm_response, and a
\* call makes at most one request to the provider, also when it faults.
C6_AtMostOnce ==
    /\ Len(calls) <= 1
    /\ \A i \in DOMAIN calls : Len(calls[i].sent) <= 1

\* A submit whose one request faulted.
C6_Witness ==
    /\ Len(calls) = 1
    /\ calls[1].provider.kind = "invoke_fault"
    /\ Len(calls[1].sent) = 1

\* C7: get_llm_response is only called with a text that is not blank, and a
\* submit with a blank text makes no call and leaves the session state as it was.
C7_NonEmptyPrecondition ==
    /\ [](\A i \in DOMAIN calls : strip(calls[i].input_text) # <<>>)
    /\ [][ ((\E file \in ApiKeys : ClickSubmit(file)) /\ strip(user_input) = <<>>)
              => (calls' = <<>> /\ session_state' = session_state) ]_vars

\* A submit of a single space, refused with the warning, after an earlier
\* answer was stored.
C7_Witness ==
    /\ warned
    /\ user_input = <<" ">>
    /\ calls = <<>>
    /\ DOMAIN session_state = SessionKeys

\* C8: the radio's options, the keys of system_messages and the keys of
\* expert_descriptions are the same four identifiers, the selected persona is
\* always one of them, and no call from the page fails on the prompt lookup.
C8_PersonaInRegistry ==
    /\ Range(options) = DOMAIN system_messages
    /\ DOMAIN expert_descriptions = DOMAIN system_messages
    /\ Cardinality(DOMAIN system_messages) = 4
    /\ expert_type \in DOMAIN system_messages
    /\ expert_type \in DOMAIN expert_descriptions
    /\ \A i \in DOMAIN calls :
           /\ calls[i].expert_type \in DOMAIN system_messages
           /\ calls[i].ret # UnknownPersonaFailure(calls[i].expert_type)

\* A call for the radio's last option.
C8_Witness ==
    \E i \in DOMAIN calls :
        /\ calls[i].expert_type = options[Len(options)]
        /\ Configured(calls[i].api_key)

\* The values a call without a configured key can return, over all arguments.
AbsentReturns ==
    {get_llm_response(t, e, k, p).ret :
        t \in Texts, e \in ExpertArgs, k \in {Unset, ""}, p \in ProviderOutcomes}

\* C9 as stated: a value returned with a configured key, on success or on a
\* fault, never equals a value returned without one.
C9_Original ==
    \A i \in DOMAIN calls :
        Configured(calls[i].api_key) => calls[i].ret \notin AbsentReturns

\* C9 amended: a value returned with a configured key equals a value returned
\* without one only when it is a success whose provider answer is itself that
\* text; a failure returned with a configured key never equals it.
C9_Amended ==
    \A i \in DOMAIN calls :
        (Configured(calls[i].api_key) /\ calls[i].ret \in AbsentReturns) =>
            /\ calls[i].provider.kind = "content"
            /\ calls[i].provider.text = calls[i].ret
            /\ ValidExpert(calls[i].expert_type)

\* A call with a configured key whose fault description is the tail of the
\* missing-credential message, and whose result still differs from it.
C9_Witness ==
    \E i \in DOMAIN calls :
        /\ Configured(calls[i].api_key)
        /\ calls[i].provider = [kind |-> "invoke_fault", text |-> Tail(MissingCredentialMsg)]
        /\ ValidExpert(calls[i].expert_type)
        /\ calls[i].ret \notin AbsentReturns

\* The session state holds none of the three attributes or all of them, and
\* then they are the question, the persona and the return value of the most
\* recent call made by the page.
SessionConsistent ==
    /\ DOMAIN session_state \in {{}, SessionKeys}
    /\ (DOMAIN session_state = {}) <=> (lastCall = <<>>)
    /\ lastCall # <<>> =>
           /\ session_state["last_question"] = lastCall[1].input_text
           /\ session_state["last_expert"] = lastCall[1].expert_type
           /\ strip(session_state["last_question"]) # <<>>
           /\ session_state["last_response"] =
                  get_llm_response(session_state["last_question"],
                                   session_state["last_expert"],
                                   lastCall[1].api_key, lastCall[1].provider).ret

\* C10: the session state always holds none or all of last_response,
\* last_question, last_expert, consistent with the most recent submit of a
\* text that is not blank, and a change of the persona or of the text does
\* not change it.
C10_DisplayedTriple ==
    /\ []SessionConsistent
    /\ [][ (expert_type' # expert_type \/ user_input' # user_input)
              => session_state' = session_state ]_vars

\* An answer is displayed for a question and a persona that both differ from
\* what the widgets hold now.
C10_Witness ==
    /\ DOMAIN session_state = SessionKeys
    /\ session_state["last_question"] # user_input
    /\ session_state["last_expert"] # expert_type
    /\ lastCall # <<>>

====
